---- MODULE Spec2Model ----
(***************************************************************************)
(* Model of the attachment classification pipeline:                        *)
(*   classify_attachments.py  extract_html_body_and_attachments,           *)
(*                            parse_llm_response, classify_attachments,    *)
(*                            main                                         *)
(*   evaluate.py              evaluate_classification, main                *)
(* Attachment ids are strings; lists are sequences; dicts are functions    *)
(* whose domain is the set of keys present.  Floats are exact fractions    *)
(* <<numerator, denominator>> in lowest terms.  Header values, payloads    *)
(* and texts are sequences of tokens; a message is a tree of parts.        *)
(***************************************************************************)
EXTENDS Integers, Sequences, FiniteSets, TLC

VARIABLES
    pc,                    \* position of the running program / harness
    answer,                \* parse_llm_response: the dict json.loads returned
    attachment_filenames,  \* parse_llm_response: the known id list
    partition,             \* parse_llm_response: returned dict
    again,                 \* parse_llm_response run on its own output
    predicted,             \* evaluate_classification argument
    ground_truth,          \* evaluate_classification argument
    metrics,               \* evaluate_classification result
    eml_files,             \* classify main: number of .eml files found
    eml_idx,               \* classify main: index of the current .eml file
    attachments,           \* classify main: ids extract_... returned
    outcome,               \* classify_attachments: what call_llm_api did
    response_text,         \* classify_attachments: the answer text
    result,                \* classify main: dict returned by classification
    handler,               \* classify_attachments: the except clause that ran
    calls,                 \* number of call_llm_api invocations, this message
    raised,                \* exception caught by the handler of the iteration
    errors,                \* indexes of the files whose iteration failed
    written,               \* indexes of the files whose output was saved
    gt_files,              \* evaluate main: number of ground truth files
    gt_idx,                \* evaluate main: index of the current gt file
    all_metrics,           \* evaluate main: list of per-file metrics
    overall,               \* evaluate main: summed counts and overall ratios
    msg,                   \* extract_...: the parsed message
    walk_parts,            \* extract_...: parts msg.walk() has yet to yield
    html_body,             \* extract_...: the body captured so far
    extracted              \* extract_...: the returned pair

vars == <<pc, answer, attachment_filenames, partition, again, predicted,
          ground_truth, metrics, eml_files, eml_idx, attachments, outcome,
          response_text, result, handler, calls, raised, errors, written,
          gt_files, gt_idx, all_metrics, overall, msg, walk_parts,
          html_body, extracted>>

(***************************************************************************)
(* Bounds and the id alphabet                                              *)
(***************************************************************************)
MaxLen == 2        \* longest raw list of an answer
MaxText == 4       \* longest answer text, in tokens
MaxFiles == 2      \* files of a batch
MaxParts == 4      \* parts of a message, containers included

\* ids in Python string order; x.gif is never an attachment of a message
IdOrder == <<"a.pdf", "b.pdf", "c.png", "x.gif">>
KnownIds == {"a.pdf", "b.pdf", "c.png"}
AllIds == {IdOrder[i] : i \in 1..Len(IdOrder)}

\* the strings the model sorts, in Python string order
StringOrder ==
    <<"a.pdf", "b.pdf", "c.png", "example_7_attachment_01.pdf",
      "example_7_attachment_02.png", "invoice.pdf", "x.gif">>

Rank(id) == CHOOSE i \in 1..Len(StringOrder) : StringOrder[i] = id

(***************************************************************************)
(* Python built-ins                                                        *)
(***************************************************************************)
\* set(list)
ToSet(list) == {list[i] : i \in 1..Len(list)}

\* [a for a in list if a in keep]
RECURSIVE Filter(_, _)
Filter(list, keep) ==
    IF list = <<>> THEN <<>>
    ELSE IF Head(list) \in keep
         THEN <<Head(list)>> \o Filter(Tail(list), keep)
         ELSE Filter(Tail(list), keep)

\* insertion of one element into a sorted list (keeps duplicates)
RECURSIVE Insert(_, _)
Insert(x, list) ==
    IF list = <<>> THEN <<x>>
    ELSE IF Rank(x) <= Rank(Head(list)) THEN <<x>> \o list
         ELSE <<Head(list)>> \o Insert(x, Tail(list))

\* sorted(list)
RECURSIVE sorted(_)
sorted(list) ==
    IF list = <<>> THEN <<>> ELSE Insert(Head(list), sorted(Tail(list)))

\* list(s): every iteration order a set may have
ListsOf(s) ==
    {l \in [1..Cardinality(s) -> s] : ToSet(l) = s}

\* dict.get(key, [])
Get(dict, key) == IF key \in DOMAIN dict THEN dict[key] ELSE <<>>

\* lists of at most n ids
ListsUpTo(ids, n) == UNION {[1..k -> ids] : k \in 0..n}

Keys == {"relevant", "irrelevant"}
EmptyDict == [relevant |-> <<>>, irrelevant |-> <<>>]

(***************************************************************************)
(* parse_llm_response, from the parsed dict on (lines 227-270)             *)
(***************************************************************************)
\* lines 231-243: a list with duplicates is replaced by list(set(list))
Dedup(list) ==
    IF Len(list) # Cardinality(ToSet(list)) THEN ListsOf(ToSet(list))
    ELSE {list}

\* mutant: an id of both lists stays in both
RemoveOverlap_keep(irrelevant, relevant_set, irrelevant_set) == {irrelevant}

\* lines 245-251: ids of both lists leave 'irrelevant'
RemoveOverlap(irrelevant, relevant_set, irrelevant_set) ==
    IF relevant_set \cap irrelevant_set # {}
    THEN ListsOf(irrelevant_set \ (relevant_set \cap irrelevant_set))
    ELSE {irrelevant}

\* mutant: unclassified ids are left out
AddMissing_none(relevant, irrelevant, all_attachments) == {irrelevant}

\* mutant: 'missing' is computed against the relevant list only
AddMissing_relevant_only(relevant, irrelevant, all_attachments) ==
    LET missing == all_attachments \ ToSet(relevant)
    IN  IF missing # {} THEN {irrelevant \o m : m \in ListsOf(missing)}
        ELSE {irrelevant}

\* lines 258-265: ids nobody classified are appended to 'irrelevant'
AddMissing(relevant, irrelevant, all_attachments) ==
    LET missing == all_attachments \ ToSet(relevant \o irrelevant)
    IN  IF missing # {} THEN {irrelevant \o m : m \in ListsOf(missing)}
        ELSE {irrelevant}

\* the set of dicts the function may return (set iteration order is free)
parse_lists(dict, filenames) ==
    LET relevant0 == Get(dict, "relevant")
        irrelevant0 == Get(dict, "irrelevant")
        relevant_set == ToSet(relevant0)
        irrelevant_set == ToSet(irrelevant0)
        all_attachments == ToSet(filenames)
    IN  UNION { UNION { UNION {
          { [relevant |-> sorted(Filter(relevant1, all_attachments)),
             irrelevant |-> sorted(irrelevant4)]
            : irrelevant4 \in AddMissing(Filter(relevant1, all_attachments),
                                         Filter(irrelevant2, all_attachments),
                                         all_attachments) }
          : irrelevant2 \in RemoveOverlap(irrelevant1, relevant_set,
                                          irrelevant_set) }
          : irrelevant1 \in Dedup(irrelevant0) }
          : relevant1 \in Dedup(relevant0) }

(***************************************************************************)
(* The answer text.  A text is a list of tokens: the two braces, "c" for   *)
(* commentary without a brace, "R" and "I" for the members                 *)
(*   "relevant": ["a.pdf", "x.gif"]   and   "irrelevant": ["a.pdf", "b.pdf"] *)
(* and "n" for a key whose value is the object that follows it.            *)
(***************************************************************************)
Tokens == {"{", "}", "c", "n", "R", "I"}
MemberKey(tok) == IF tok = "R" THEN "relevant" ELSE "irrelevant"
MemberList(tok) ==
    IF tok = "R" THEN <<"a.pdf", "x.gif">> ELSE <<"a.pdf", "b.pdf">>

Min(s) == CHOOSE x \in s : \A y \in s : x <= y
Max(s) == CHOOSE x \in s : \A y \in s : x >= y

\* re.search(r'\{[\s\S]*\}', text), lines 221-223: from the first "{" to the
\* last "}" after it; the text itself when there is no match
json_search(text) ==
    LET opens == {i \in 1..Len(text) : text[i] = "{"}
        closes == {j \in 1..Len(text) : text[j] = "}" /\ j > Min(opens)}
    IN  IF opens = {} \/ closes = {} THEN text
        ELSE SubSeq(text, Min(opens), Max(closes))

\* the JSON grammar on tokens: ParseObject(t, i) is the index after the
\* object that starts at i, 0 when there is none
RECURSIVE ParseObject(_, _), ParseMembers(_, _)
ParseObject(t, i) ==
    IF i > Len(t) \/ t[i] # "{" THEN 0 ELSE ParseMembers(t, i + 1)
ParseMembers(t, i) ==
    IF i > Len(t) THEN 0
    ELSE IF t[i] = "}" THEN i + 1
    ELSE IF t[i] \in {"R", "I"} THEN ParseMembers(t, i + 1)
    ELSE IF t[i] = "n"
         THEN IF ParseObject(t, i + 1) = 0 THEN 0
              ELSE ParseMembers(t, ParseObject(t, i + 1))
    ELSE 0

\* nesting depth of position i
Depth(t, i) ==
    Cardinality({k \in 1..(i - 1) : t[k] = "{"})
      - Cardinality({k \in 1..(i - 1) : t[k] = "}"})

\* json.loads(t), line 225: raises unless t is exactly one object; the dict
\* holds the members of the outer object
JsonValid(t) == ParseObject(t, 1) = Len(t) + 1
json_loads(t) ==
    LET top == {t[i] : i \in {k \in 1..Len(t) :
                                t[k] \in {"R", "I"} /\ Depth(t, k) = 1}}
    IN  [k \in {MemberKey(tok) : tok \in top} |->
            MemberList(CHOOSE tok \in top : MemberKey(tok) = k)]

\* parse_llm_response (lines 209-270): the exception raised, if any, the
\* returned dict and the text handed to json.loads
parse_llm_response(text, filenames) ==
    IF JsonValid(json_search(text))
    THEN {[exc |-> "none", result |-> r, response_text |-> json_search(text)]
          : r \in parse_lists(json_loads(json_search(text)), filenames)}
    ELSE {[exc |-> "JSONDecodeError", result |-> EmptyDict,
           response_text |-> json_search(text)]}

(***************************************************************************)
(* classify_attachments (lines 273-328)                                    *)
(***************************************************************************)
\* what call_llm_api (lines 162-206) can do: raise a RequestException
\* (connection error, timeout, non-2xx status), raise a KeyError on an
\* answer without 'choices', or return a text
Texts == ListsUpTo(Tokens, MaxText)
ModelOutcomes ==
    {[kind |-> k, text |-> <<>>] : k \in {"RequestException", "KeyError"}}
      \cup {[kind |-> "text", text |-> t] : t \in Texts}

\* mutant: the fallback classifies everything as relevant
Fallback_relevant(filenames) ==
    [relevant |-> sorted(filenames), irrelevant |-> <<>>]

\* lines 314, 324, 328
Fallback(filenames) == [relevant |-> <<>>, irrelevant |-> sorted(filenames)]

\* mutant: a failed call is tried a second time
CallCount_retry(o) == IF o.kind = "text" THEN 1 ELSE 2

\* line 305: the one call site, in no loop
CallCount(o) == 1

\* lines 303-308: the try body
TryBody(filenames, o) ==
    IF o.kind # "text"
    THEN {[exc |-> o.kind, result |-> EmptyDict, response_text |-> <<>>]}
    ELSE parse_llm_response(o.text, filenames)

\* lines 310-328: the except clause that matches
Handler(exc) ==
    CASE exc = "none" -> "none"
      [] exc = "JSONDecodeError" -> "JSONDecodeError"
      [] exc = "RequestException" -> "RequestException"
      [] OTHER -> "Exception"

\* the returns of classify_attachments: dict, clause that ran, exception
\* that leaves the function, text parsed, calls made
classify_attachments(filenames, o) ==
    IF filenames = <<>>
    THEN {[result |-> EmptyDict, handler |-> "none", raises |-> "none",
           response_text |-> <<>>, calls |-> 0]}
    ELSE {[result |-> IF b.exc = "none" THEN b.result
                      ELSE Fallback(filenames),
           handler |-> Handler(b.exc),
           raises |-> "none",
           response_text |-> b.response_text,
           calls |-> CallCount(o)]
          : b \in TryBody(filenames, o)}

(***************************************************************************)
(* Fractions: the values Python's true division and float arithmetic give, *)
(* kept exact.  ZeroDivisionError stands for the raised exception.         *)
(***************************************************************************)
\* (the arithmetic is written as functions, whose arguments are values)
GCD[a \in Nat, b \in Nat] == IF b = 0 THEN a ELSE GCD[b, a % b]

Zero == <<0, 1>>
ZeroDivisionError == <<0, 0>>
Fraction[n \in Nat, d \in Nat] == <<n \div GCD[n, d], d \div GCD[n, d]>>

\* n / d
Div[n \in Nat, d \in Nat] ==
    IF d = 0 THEN ZeroDivisionError ELSE Fraction[n, d]

\* x * y, x + y, k * x, x / y, x > 0 on fractions
FMul[x \in Nat \X Nat, y \in Nat \X Nat] ==
    IF ZeroDivisionError \in {x, y} THEN ZeroDivisionError
    ELSE Fraction[x[1] * y[1], x[2] * y[2]]
FAdd[x \in Nat \X Nat, y \in Nat \X Nat] ==
    IF ZeroDivisionError \in {x, y} THEN ZeroDivisionError
    ELSE Fraction[x[1] * y[2] + y[1] * x[2], x[2] * y[2]]
FScale[k \in Nat, x \in Nat \X Nat] ==
    IF x = ZeroDivisionError THEN ZeroDivisionError
    ELSE Fraction[k * x[1], x[2]]
FDiv[x \in Nat \X Nat, y \in Nat \X Nat] ==
    IF ZeroDivisionError \in {x, y} \/ y[1] = 0 THEN ZeroDivisionError
    ELSE Fraction[x[1] * y[2], x[2] * y[1]]
FPositive[x \in Nat \X Nat] == x # ZeroDivisionError /\ x[1] > 0

(***************************************************************************)
(* evaluate_classification (evaluate.py lines 11-66)                       *)
(***************************************************************************)
\* lines 36-38
Accuracy(tp, tn, fp, fn) ==
    IF tp + tn + fp + fn > 0 THEN Div[tp + tn, tp + tn + fp + fn] ELSE Zero

\* mutant: the division is not guarded
Precision_unguarded(tp, fp) == Div[tp, tp + fp]

\* lines 40-41
Precision(tp, fp) == IF tp + fp > 0 THEN Div[tp, tp + fp] ELSE Zero

\* lines 43-44
Recall(tp, fn) == IF tp + fn > 0 THEN Div[tp, tp + fn] ELSE Zero

\* lines 46-47
F1(precision, recall) ==
    IF FPositive[FAdd[precision, recall]]
    THEN FDiv[FScale[2, FMul[precision, recall]], FAdd[precision, recall]]
    ELSE Zero

\* lines 23-34
TruePositives(pred, gt) ==
    Cardinality(ToSet(Get(pred, "relevant")) \cap ToSet(Get(gt, "relevant")))
\* mutant: every id the ground truth excludes counts as a true negative
TrueNegatives_gt_only(pred, gt) ==
    Cardinality(ToSet(Get(gt, "irrelevant")))

\* line 28
TrueNegatives(pred, gt) ==
    Cardinality(ToSet(Get(pred, "irrelevant"))
                \cap ToSet(Get(gt, "irrelevant")))
FalsePositives_swapped(pred, gt) ==
    Cardinality(ToSet(Get(pred, "irrelevant")) \cap ToSet(Get(gt, "relevant")))
FalsePositives(pred, gt) ==
    Cardinality(ToSet(Get(pred, "relevant")) \cap ToSet(Get(gt, "irrelevant")))
FalseNegatives(pred, gt) ==
    Cardinality(ToSet(Get(pred, "irrelevant")) \cap ToSet(Get(gt, "relevant")))

\* sorted(list(s)) of a set
SortedList(s) == sorted(CHOOSE l \in ListsOf(s) : TRUE)

evaluate_classification(pred, gt) ==
    LET pred_all == ToSet(Get(pred, "relevant"))
                    \cup ToSet(Get(pred, "irrelevant"))
        gt_all == ToSet(Get(gt, "relevant")) \cup ToSet(Get(gt, "irrelevant"))
        tp == TruePositives(pred, gt)
        tn == TrueNegatives(pred, gt)
        fp == FalsePositives(pred, gt)
        fn == FalseNegatives(pred, gt)
        precision == Precision(tp, fp)
        recall == Recall(tp, fn)
    IN  [true_positives |-> tp,
         true_negatives |-> tn,
         false_positives |-> fp,
         false_negatives |-> fn,
         accuracy |-> Accuracy(tp, tn, fp, fn),
         precision |-> precision,
         recall |-> recall,
         f1_score |-> F1(precision, recall),
         missing_attachments |-> SortedList(gt_all \ pred_all),
         extra_attachments |-> SortedList(pred_all \ gt_all)]

\* the call raises when one of its divisions does
Raises(m) ==
    ZeroDivisionError \in {m.accuracy, m.precision, m.recall, m.f1_score}

NoMetrics ==
    [true_positives |-> 0, true_negatives |-> 0, false_positives |-> 0,
     false_negatives |-> 0, accuracy |-> Zero, precision |-> Zero,
     recall |-> Zero, f1_score |-> Zero, missing_attachments |-> <<>>,
     extra_attachments |-> <<>>]

(***************************************************************************)
(* Values of the variables a specification does not use                    *)
(***************************************************************************)
NoOutcome == [kind |-> "none", text |-> <<>>]
NoOverall ==
    [total_tp |-> 0, total_tn |-> 0, total_fp |-> 0, total_fn |-> 0,
     accuracy |-> Zero, precision |-> Zero, recall |-> Zero,
     f1_score |-> Zero]

NoMessage == [ctype |-> <<>>, cdisp |-> <<>>, payload |-> <<>>, parts |-> <<>>]
NoResult == <<<<>>, <<>>>>
ExtractIdle ==
    /\ msg = NoMessage /\ walk_parts = <<>> /\ html_body = <<>>
    /\ extracted = NoResult
RepairIdle ==
    /\ answer = EmptyDict /\ attachment_filenames = <<>>
    /\ partition = EmptyDict /\ again = EmptyDict
ScoreIdle ==
    /\ predicted = EmptyDict /\ ground_truth = EmptyDict
    /\ metrics = NoMetrics
ClassifyIdle ==
    /\ eml_files = 0 /\ eml_idx = 0 /\ attachments = <<>>
    /\ outcome = NoOutcome /\ response_text = <<>> /\ result = EmptyDict
    /\ handler = "none" /\ calls = 0
    /\ raised = "none" /\ errors = {} /\ written = {}
EvaluateIdle ==
    /\ gt_files = 0 /\ gt_idx = 0 /\ all_metrics = <<>> /\ overall = NoOverall

repairVars == <<answer, attachment_filenames, partition, again>>
scoreVars == <<predicted, ground_truth, metrics>>
classifyVars == <<eml_files, eml_idx, attachments, outcome, response_text,
                  result, handler, calls, raised, errors, written>>
evaluateVars == <<gt_files, gt_idx, all_metrics, overall>>
extractVars == <<msg, walk_parts, html_body, extracted>>

(***************************************************************************)
(* SpecPure: the two pure functions on every bounded input.                *)
(* parse_llm_response is applied to a parsed answer, then to its own       *)
(* output or scored against a ground truth of the same ids;                *)
(* evaluate_classification is applied to every pair of dicts.              *)
(***************************************************************************)
\* dicts with any of the two keys, each holding a raw list
AnswerDicts == UNION {[ks -> ListsUpTo(AllIds, MaxLen)] : ks \in SUBSET Keys}

\* the id lists extract_html_body_and_attachments can return (line 72)
IdLists == {SortedList(u) : u \in SUBSET KnownIds}

\* the two-key dicts that partition the ids of a list
PartitionsOf(filenames) ==
    {[relevant |-> SortedList(r),
      irrelevant |-> SortedList(ToSet(filenames) \ r)]
     : r \in SUBSET ToSet(filenames)}

\* the dicts a ground-truth or output file may hold
ScoreLists ==
    {SortedList(s) : s \in SUBSET KnownIds} \cup {<<i, i>> : i \in KnownIds}
ScoreDicts == UNION {[ks -> ScoreLists] : ks \in SUBSET Keys}

InitPure ==
    /\ ClassifyIdle /\ EvaluateIdle
    /\ partition = EmptyDict /\ again = EmptyDict /\ metrics = NoMetrics
    /\ \/ /\ pc = "parse"
          /\ answer \in AnswerDicts
          /\ attachment_filenames \in IdLists
          /\ predicted = EmptyDict /\ ground_truth = EmptyDict
       \/ /\ pc = "score"
          /\ predicted \in ScoreDicts
          /\ ground_truth \in ScoreDicts
          /\ answer = EmptyDict /\ attachment_filenames = <<>>
    /\ ExtractIdle

Repair ==
    /\ pc = "parse"
    /\ partition' \in parse_lists(answer, attachment_filenames)
    /\ pc' = "parsed"
    /\ UNCHANGED <<answer, attachment_filenames, again, scoreVars,
                   classifyVars, evaluateVars>>
    /\ UNCHANGED extractVars

RepairAgain ==
    /\ pc = "parsed"
    /\ again' \in parse_lists(partition, attachment_filenames)
    /\ pc' = "parsed_again"
    /\ UNCHANGED <<answer, attachment_filenames, partition, scoreVars,
                   classifyVars, evaluateVars>>
    /\ UNCHANGED extractVars

ScoreRepaired ==
    /\ pc = "parsed"
    /\ \E gt \in PartitionsOf(attachment_filenames) :
          /\ predicted' = partition
          /\ ground_truth' = gt
          /\ metrics' = evaluate_classification(partition, gt)
    /\ pc' = "parsed_scored"
    /\ UNCHANGED <<repairVars, classifyVars, evaluateVars>>
    /\ UNCHANGED extractVars

Score ==
    /\ pc = "score"
    /\ metrics' = evaluate_classification(predicted, ground_truth)
    /\ pc' = "scored"
    /\ UNCHANGED <<predicted, ground_truth, repairVars, classifyVars,
                   evaluateVars>>
    /\ UNCHANGED extractVars

\* the orchestrator's fallback for the ids, scored against a ground truth
\* of the same ids
ScoreFallback ==
    /\ pc = "parse"
    /\ \E gt \in PartitionsOf(attachment_filenames) :
          /\ predicted' = Fallback(attachment_filenames)
          /\ ground_truth' = gt
          /\ metrics' = evaluate_classification(
                            Fallback(attachment_filenames), gt)
    /\ pc' = "fallback_scored"
    /\ UNCHANGED <<repairVars, classifyVars, evaluateVars>>
    /\ UNCHANGED extractVars

NextPure == Repair \/ RepairAgain \/ ScoreRepaired \/ Score \/ ScoreFallback

SpecPure == InitPure /\ [][NextPure]_vars

(***************************************************************************)
(* Properties of parse_llm_response                                        *)
(***************************************************************************)
Repaired == pc \in {"parsed", "parsed_again", "parsed_scored"}
Universe == ToSet(attachment_filenames)
RawRelevant == ToSet(Get(answer, "relevant"))
RawIrrelevant == ToSet(Get(answer, "irrelevant"))
NoRepeat(list) == Len(list) = Cardinality(ToSet(list))

\* C1: whatever the raw lists hold, the returned lists are disjoint, cover
\* exactly the known ids and repeat no id.
RepairTotality ==
    Repaired =>
        /\ ToSet(partition.relevant) \cap ToSet(partition.irrelevant) = {}
        /\ ToSet(partition.relevant) \cup ToSet(partition.irrelevant)
             = Universe
        /\ NoRepeat(partition.relevant)
        /\ NoRepeat(partition.irrelevant)

\* C1 witness: duplicates, an overlapping id, a foreign id and two omissions
RepairTotalityWitness ==
    /\ pc = "parsed"
    /\ Get(answer, "relevant") = <<"a.pdf", "a.pdf">>
    /\ Get(answer, "irrelevant") = <<"a.pdf", "x.gif">>
    /\ Universe = KnownIds
    /\ partition = [relevant |-> <<"a.pdf">>,
                    irrelevant |-> <<"b.pdf", "c.png">>]

\* C2: running the repair on its own output returns the same dict.
RepairIdempotent == pc = "parsed_again" => again = partition

\* C2 witness: the first run changed the raw lists, the second ran
RepairIdempotentWitness ==
    /\ pc = "parsed_again"
    /\ "relevant" \in DOMAIN answer /\ "irrelevant" \in DOMAIN answer
    /\ RawRelevant \cap RawIrrelevant # {}
    /\ ~ NoRepeat(answer.irrelevant)
    /\ Universe \ (RawRelevant \cup RawIrrelevant) # {}
    /\ again = partition

\* C3: an id of both raw lists is relevant, an id of neither is irrelevant;
\* relevant = raw relevant /\ U and irrelevant = U - raw relevant.
RepairPrecedence ==
    Repaired =>
        /\ \A id \in Universe :
              /\ id \in RawRelevant \cap RawIrrelevant
                    => id \in ToSet(partition.relevant)
              /\ id \notin RawRelevant \cup RawIrrelevant
                    => id \in ToSet(partition.irrelevant)
        /\ ToSet(partition.relevant) = RawRelevant \cap Universe
        /\ ToSet(partition.irrelevant) = Universe \ RawRelevant
        /\ (/\ Universe = KnownIds
            /\ Get(answer, "relevant") = <<"a.pdf">>
            /\ Get(answer, "irrelevant") = <<>>)
              => partition = [relevant |-> <<"a.pdf">>,
                              irrelevant |-> <<"b.pdf", "c.png">>]

\* C3 witness: a.pdf is in both raw lists, b.pdf and c.png in neither
RepairPrecedenceWitness ==
    /\ pc = "parsed"
    /\ Universe = KnownIds
    /\ Get(answer, "relevant") = <<"a.pdf">>
    /\ Get(answer, "irrelevant") = <<"a.pdf">>
    /\ "a.pdf" \in ToSet(partition.relevant)
    /\ ToSet(partition.irrelevant) = {"b.pdf", "c.png"}

(***************************************************************************)
(* Properties of evaluate_classification                                   *)
(***************************************************************************)
Scored == pc \in {"scored", "parsed_scored"}
PredIncluded == ToSet(Get(predicted, "relevant"))
PredExcluded == ToSet(Get(predicted, "irrelevant"))
GtIncluded == ToSet(Get(ground_truth, "relevant"))
GtExcluded == ToSet(Get(ground_truth, "irrelevant"))

\* C7: the four counts are the sizes of the four intersections, missing and
\* extra are the two differences of the id sets, and the end-to-end scenario
\* (repair of [a.pdf, a.pdf] / [c.png], then scoring) gives tp=1 fn=1 tn=1
\* fp=0.
ConfusionCounts ==
    Scored =>
        /\ metrics.true_positives = Cardinality(PredIncluded \cap GtIncluded)
        /\ metrics.true_negatives = Cardinality(PredExcluded \cap GtExcluded)
        /\ metrics.false_positives = Cardinality(PredIncluded \cap GtExcluded)
        /\ metrics.false_negatives = Cardinality(PredExcluded \cap GtIncluded)
        /\ ToSet(metrics.missing_attachments)
             = (GtIncluded \cup GtExcluded) \ (PredIncluded \cup PredExcluded)
        /\ ToSet(metrics.extra_attachments)
             = (PredIncluded \cup PredExcluded) \ (GtIncluded \cup GtExcluded)
        /\ (/\ pc = "parsed_scored"
            /\ Universe = KnownIds
            /\ Get(answer, "relevant") = <<"a.pdf", "a.pdf">>
            /\ Get(answer, "irrelevant") = <<"c.png">>
            /\ ground_truth = [relevant |-> <<"a.pdf", "b.pdf">>,
                               irrelevant |-> <<"c.png">>])
              => /\ metrics.true_positives = 1
                 /\ metrics.false_negatives = 1
                 /\ metrics.true_negatives = 1
                 /\ metrics.false_positives = 0

\* C7 witness: the end-to-end scenario, repaired and scored
ConfusionCountsWitness ==
    /\ pc = "parsed_scored"
    /\ Universe = KnownIds
    /\ Get(answer, "relevant") = <<"a.pdf", "a.pdf">>
    /\ Get(answer, "irrelevant") = <<"c.png">>
    /\ predicted = [relevant |-> <<"a.pdf">>,
                    irrelevant |-> <<"b.pdf", "c.png">>]
    /\ ground_truth = [relevant |-> <<"a.pdf", "b.pdf">>,
                       irrelevant |-> <<"c.png">>]
    /\ metrics.true_positives = 1 /\ metrics.false_negatives = 1

\* x is the fraction n / d, or 0.0 when d = 0
IsRatio(x, n, d) ==
    IF d = 0 THEN x = Zero ELSE x[2] > 0 /\ x[1] * d = n * x[2]

\* C8: each metric is its ratio, 0.0 when its denominator is 0, and no
\* division raises; two empty partitions score 0.0 four times.
MetricsTotal ==
    Scored =>
        LET tp == metrics.true_positives
            tn == metrics.true_negatives
            fp == metrics.false_positives
            fn == metrics.false_negatives
            p == metrics.precision
            r == metrics.recall
        IN  /\ ~ Raises(metrics)
            /\ IsRatio(metrics.accuracy, tp + tn, tp + tn + fp + fn)
            /\ IsRatio(p, tp, tp + fp)
            /\ IsRatio(r, tp, tp + fn)
            /\ IsRatio(metrics.f1_score, 2 * p[1] * r[1],
                       p[1] * r[2] + r[1] * p[2])
            /\ (PredIncluded \cup PredExcluded \cup GtIncluded
                  \cup GtExcluded = {})
                 => /\ metrics.accuracy = Zero /\ metrics.precision = Zero
                    /\ metrics.recall = Zero /\ metrics.f1_score = Zero

\* C8 witness: two (empty, empty) partitions were scored
MetricsTotalWitness ==
    /\ pc = "scored"
    /\ predicted = EmptyDict /\ ground_truth = EmptyDict
    /\ metrics.accuracy = Zero /\ metrics.f1_score = Zero

(***************************************************************************)
(* Spec: the two programs and a direct call of classify_attachments.       *)
(*   classify_attachments.main : "classify_main" ... "classify_done"       *)
(*   evaluate.main             : "evaluate_main" ... "evaluate_done"       *)
(*   classify_attachments(...) : "call" -> "returned"                      *)
(***************************************************************************)
Init ==
    /\ RepairIdle /\ ScoreIdle /\ EvaluateIdle
    /\ eml_files = 0 /\ eml_idx = 0
    /\ outcome = NoOutcome /\ response_text = <<>> /\ result = EmptyDict
    /\ handler = "none" /\ calls = 0
    /\ raised = "none" /\ errors = {} /\ written = {}
    /\ \/ pc \in {"classify_main", "evaluate_main"} /\ attachments = <<>>
       \/ pc = "call" /\ attachments \in IdLists
    /\ ExtractIdle

\* position after the iteration of file idx out of n
AfterFile(idx, n, more, last) == IF idx < n THEN more ELSE last

\* classify main, lines 331-349: credential, directories, file list
ClassifyStart ==
    /\ pc = "classify_main"
    /\ \/ pc' = "config_error" /\ UNCHANGED <<eml_files, eml_idx>>
       \/ pc' = "no_files" /\ UNCHANGED <<eml_files, eml_idx>>
       \/ \E n \in 1..MaxFiles :
             eml_files' = n /\ eml_idx' = 1 /\ pc' = "extract"
    /\ UNCHANGED <<repairVars, scoreVars, evaluateVars, attachments, outcome,
                   response_text, result, handler, calls, raised, errors,
                   written>>
    /\ UNCHANGED extractVars

\* the locals of an iteration are dead once its body is left
EndIteration ==
    /\ attachments' = <<>> /\ outcome' = NoOutcome /\ response_text' = <<>>
    /\ result' = EmptyDict /\ handler' = "none" /\ calls' = 0

\* lines 351-359: the next file is read and walked; a failure goes to the
\* handler of the iteration
Extract ==
    /\ pc = "extract"
    /\ UNCHANGED <<outcome, response_text, result, handler, calls>>
    /\ \/ \E ids \in IdLists :
             attachments' = ids /\ raised' = "none" /\ pc' = "classify"
       \/ attachments' = <<>> /\ raised' = "Exception" /\ pc' = "except"
    /\ UNCHANGED <<repairVars, scoreVars, evaluateVars, eml_files, eml_idx,
                   errors, written>>
    /\ UNCHANGED extractVars

\* lines 361-364: no attachments, no classification
ClassifyEmpty ==
    /\ pc = "classify" /\ attachments = <<>>
    /\ result' = EmptyDict
    /\ pc' = "write"
    /\ UNCHANGED <<repairVars, scoreVars, evaluateVars, eml_files, eml_idx,
                   attachments, outcome, response_text, handler, calls,
                   raised, errors, written>>
    /\ UNCHANGED extractVars

\* lines 365-369 and 273-328: classify_attachments, called by main or
\* directly
ClassifyAttachments ==
    /\ \/ pc = "classify" /\ attachments # <<>>
       \/ pc = "call"
    /\ outcome' \in IF attachments = <<>> THEN {NoOutcome} ELSE ModelOutcomes
    /\ \E r \in classify_attachments(attachments, outcome') :
          /\ response_text' = r.response_text
          /\ result' = r.result
          /\ handler' = r.handler
          /\ calls' = calls + r.calls
          /\ raised' = r.raises
          /\ pc' = IF pc = "call"
                   THEN (IF r.raises = "none" THEN "returned" ELSE "raised")
                   ELSE (IF r.raises = "none" THEN "write" ELSE "except")
    /\ UNCHANGED <<repairVars, scoreVars, evaluateVars, eml_files, eml_idx,
                   attachments, errors, written>>
    /\ UNCHANGED extractVars

\* lines 371-384: the output file is written, unless the name has no
\* example number; a failed write goes to the handler
Write ==
    /\ pc = "write"
    /\ \/ /\ written' = written \cup {eml_idx}
          /\ pc' = AfterFile(eml_idx, eml_files, "extract", "banner")
          /\ eml_idx' = AfterFile(eml_idx, eml_files, eml_idx + 1, eml_idx)
          /\ UNCHANGED raised
       \/ /\ pc' = AfterFile(eml_idx, eml_files, "extract", "banner")
          /\ eml_idx' = AfterFile(eml_idx, eml_files, eml_idx + 1, eml_idx)
          /\ UNCHANGED <<written, raised>>
       \/ /\ raised' = "Exception" /\ pc' = "except"
          /\ UNCHANGED <<written, eml_idx>>
    /\ EndIteration
    /\ UNCHANGED <<repairVars, scoreVars, evaluateVars, eml_files, errors>>
    /\ UNCHANGED extractVars

\* mutant: the handler lets the exception leave the loop
Except_abort ==
    /\ pc = "except"
    /\ pc' = "aborted"
    /\ UNCHANGED <<repairVars, scoreVars, evaluateVars, classifyVars>>
    /\ UNCHANGED extractVars

\* lines 386-389: the handler of the iteration prints and goes on
Except ==
    /\ pc = "except"
    /\ errors' = errors \cup {eml_idx}
    /\ pc' = AfterFile(eml_idx, eml_files, "extract", "banner")
    /\ eml_idx' = AfterFile(eml_idx, eml_files, eml_idx + 1, eml_idx)
    /\ raised' = "none"
    /\ EndIteration
    /\ UNCHANGED <<repairVars, scoreVars, evaluateVars, eml_files, written>>
    /\ UNCHANGED extractVars

\* line 391
ClassifyComplete ==
    /\ pc = "banner"
    /\ pc' = "classify_done"
    /\ UNCHANGED <<repairVars, scoreVars, evaluateVars, classifyVars>>
    /\ UNCHANGED extractVars

(***************************************************************************)
(* evaluate main (evaluate.py lines 69-152)                                *)
(***************************************************************************)
\* the (predicted, ground truth) dicts of one example: an example without
\* attachments, or two partitions of three ids
FilePairs ==
    {<<EmptyDict, EmptyDict>>}
      \cup (PartitionsOf(<<"a.pdf", "b.pdf", "c.png">>)
              \X PartitionsOf(<<"a.pdf", "b.pdf", "c.png">>))

\* mutant: the first record is left out of the sum
RECURSIVE SumOf_skip_first(_, _)
SumOf_skip_first(list, field) ==
    IF Len(list) <= 1 THEN 0
    ELSE list[Len(list)][field]
           + SumOf_skip_first(SubSeq(list, 1, Len(list) - 1), field)

\* sum(m[field] for m in list), lines 138-141
RECURSIVE SumOf(_, _)
SumOf(list, field) ==
    IF list = <<>> THEN 0
    ELSE list[Len(list)][field] + SumOf(SubSeq(list, 1, Len(list) - 1), field)

\* lines 138-146
OverallMetrics(list) ==
    LET total_tp == SumOf(list, "true_positives")
        total_tn == SumOf(list, "true_negatives")
        total_fp == SumOf(list, "false_positives")
        total_fn == SumOf(list, "false_negatives")
        overall_accuracy ==
            IF total_tp + total_tn + total_fp + total_fn > 0
            THEN Div[total_tp + total_tn,
                     total_tp + total_tn + total_fp + total_fn]
            ELSE Zero
        overall_precision ==
            IF total_tp + total_fp > 0 THEN Div[total_tp, total_tp + total_fp]
            ELSE Zero
        overall_recall ==
            IF total_tp + total_fn > 0 THEN Div[total_tp, total_tp + total_fn]
            ELSE Zero
        overall_f1 ==
            IF FPositive[FAdd[overall_precision, overall_recall]]
            THEN FDiv[FScale[2, FMul[overall_precision, overall_recall]],
                      FAdd[overall_precision, overall_recall]]
            ELSE Zero
    IN  [total_tp |-> total_tp, total_tn |-> total_tn,
         total_fp |-> total_fp, total_fn |-> total_fn,
         accuracy |-> overall_accuracy, precision |-> overall_precision,
         recall |-> overall_recall, f1_score |-> overall_f1]

\* lines 69-90: directories and ground truth files
EvaluateStart ==
    /\ pc = "evaluate_main"
    /\ \/ pc' = "evaluate_returned" /\ UNCHANGED <<gt_files, gt_idx>>
       \/ \E n \in 1..MaxFiles : gt_files' = n /\ gt_idx' = 1 /\ pc' = "load"
    /\ UNCHANGED <<repairVars, scoreVars, classifyVars, all_metrics, overall>>
    /\ UNCHANGED extractVars

\* lines 92-106: one ground truth file: no output file (continue), a file
\* that does not load, or two loaded dicts
EvaluateLoad ==
    /\ pc = "load"
    /\ \/ /\ pc' = AfterFile(gt_idx, gt_files, "load", "overall")
          /\ gt_idx' = AfterFile(gt_idx, gt_files, gt_idx + 1, gt_idx)
          /\ UNCHANGED <<predicted, ground_truth, raised>>
       \/ /\ raised' = "JSONDecodeError"
          /\ pc' = "evaluate_except"
          /\ UNCHANGED <<predicted, ground_truth, gt_idx>>
       \/ /\ \E pair \in FilePairs :
                predicted' = pair[1] /\ ground_truth' = pair[2]
          /\ pc' = "evaluate"
          /\ UNCHANGED <<gt_idx, raised>>
    /\ UNCHANGED <<repairVars, metrics, eml_files, eml_idx, attachments,
                   outcome, response_text, result, handler, calls, errors,
                   written, gt_files, all_metrics, overall>>
    /\ UNCHANGED extractVars

\* lines 108-125: the pair is scored and the record appended; a raise of
\* evaluate_classification goes to the handler
EvaluateFile ==
    /\ pc = "evaluate"
    /\ IF Raises(evaluate_classification(predicted, ground_truth))
       THEN /\ raised' = "ZeroDivisionError"
            /\ pc' = "evaluate_except"
            /\ UNCHANGED <<all_metrics, gt_idx>>
       ELSE /\ all_metrics' =
                  Append(all_metrics,
                         evaluate_classification(predicted, ground_truth))
            /\ pc' = AfterFile(gt_idx, gt_files, "load", "overall")
            /\ gt_idx' = AfterFile(gt_idx, gt_files, gt_idx + 1, gt_idx)
            /\ UNCHANGED raised
    /\ predicted' = EmptyDict /\ ground_truth' = EmptyDict
    /\ UNCHANGED <<repairVars, metrics, eml_files, eml_idx, attachments,
                   outcome, response_text, result, handler, calls, errors,
                   written, gt_files, overall>>
    /\ UNCHANGED extractVars

\* lines 127-130: the handler of the iteration prints and goes on
EvaluateExcept ==
    /\ pc = "evaluate_except"
    /\ errors' = errors \cup {gt_idx}
    /\ pc' = AfterFile(gt_idx, gt_files, "load", "overall")
    /\ gt_idx' = AfterFile(gt_idx, gt_files, gt_idx + 1, gt_idx)
    /\ raised' = "none"
    /\ UNCHANGED <<repairVars, scoreVars, eml_files, eml_idx, attachments,
                   outcome, response_text, result, handler, calls,
                   written, gt_files, all_metrics, overall>>
    /\ UNCHANGED extractVars

\* lines 132-152: the overall metrics, when at least one pair was scored
Overall ==
    /\ pc = "overall"
    /\ overall' = IF all_metrics # <<>> THEN OverallMetrics(all_metrics)
                  ELSE overall
    /\ pc' = "evaluate_done"
    /\ UNCHANGED <<repairVars, scoreVars, classifyVars, gt_files, gt_idx,
                   all_metrics>>
    /\ UNCHANGED extractVars

Next ==
    \/ ClassifyStart \/ Extract \/ ClassifyEmpty \/ ClassifyAttachments
    \/ Write \/ Except \/ ClassifyComplete
    \/ EvaluateStart \/ EvaluateLoad \/ EvaluateFile \/ EvaluateExcept
    \/ Overall

Spec == Init /\ [][Next]_vars

\* the positions at which a program has a next statement to run
Running ==
    {"classify_main", "extract", "classify", "call", "write", "except",
     "banner", "evaluate_main", "load", "evaluate", "evaluate_except",
     "overall"}
Positions ==
    Running \cup {"config_error", "no_files", "classify_done", "returned",
                  "raised", "evaluate_returned", "evaluate_done"}

\* a step of the running program: its position or its file index changes
position == <<pc, eml_idx, gt_idx>>
Advance ==
    /\ pc \in Running
    /\ \E q \in Positions, i \in 0..MaxFiles, j \in 0..MaxFiles :
          pc' = q /\ eml_idx' = i /\ gt_idx' = j

\* both programs are sequential and single-threaded: while a program has a
\* next statement, it runs it
FairSpec == Spec /\ WF_position(Advance)

(***************************************************************************)
(* Properties of classify_attachments                                      *)
(***************************************************************************)
Classified == pc \in {"write", "returned"} /\ outcome # NoOutcome

\* C4: when the model call fails or the answer does not parse, nothing is
\* raised to the caller and the result is (empty, all ids), a partition of
\* the ids.
OrchestratorFallback ==
    (/\ pc \in {"write", "returned", "except", "raised"}
     /\ \/ outcome.kind \in {"RequestException", "KeyError"}
        \/ outcome.kind = "text" /\ ~ JsonValid(json_search(outcome.text)))
      => /\ pc \in {"write", "returned"}
         /\ raised = "none"
         /\ handler # "none"
         /\ result.relevant = <<>>
         /\ ToSet(result.irrelevant) = ToSet(attachments)
         /\ ToSet(result.relevant) \cap ToSet(result.irrelevant) = {}

\* C4 witness: a transport failure on three ids, back in main
OrchestratorFallbackWitness ==
    /\ pc = "write"
    /\ outcome.kind = "RequestException"
    /\ attachments = <<"a.pdf", "b.pdf", "c.png">>
    /\ result = [relevant |-> <<>>,
                 irrelevant |-> <<"a.pdf", "b.pdf", "c.png">>]

\* C5: one classification calls the model once when there are ids, on the
\* success and on both failure paths, and never when there are none, where
\* the result is (empty, empty).
AtMostOnceCall ==
    /\ calls <= 1
    /\ pc \in {"write", "returned"} =>
          /\ calls = IF attachments = <<>> THEN 0 ELSE 1
          /\ attachments = <<>> => result = EmptyDict

\* C5 witness: a failed call that was not repeated
AtMostOnceCallWitness ==
    /\ pc = "write"
    /\ handler = "RequestException"
    /\ attachments # <<>>
    /\ calls = 1

\* the object from the first "{" to the brace that closes it
FirstOpen(text) == Min({i \in 1..Len(text) : text[i] = "{"})
HasFirstObject(text) ==
    /\ \E i \in 1..Len(text) : text[i] = "{"
    /\ ParseObject(text, FirstOpen(text)) # 0
FirstObject(text) ==
    SubSeq(text, FirstOpen(text), ParseObject(text, FirstOpen(text)) - 1)

\* C6: when the answer text holds a well-formed object, whatever commentary
\* surrounds it, the result is the repair of the lists of that first
\* object.
JsonExtraction ==
    (Classified /\ outcome.kind = "text" /\ HasFirstObject(outcome.text))
      => result \in parse_lists(json_loads(FirstObject(outcome.text)),
                                attachments)

(***************************************************************************)
(* Properties of the two batch runs                                        *)
(***************************************************************************)
\* the sum of a field over all_metrics, taken in the order p
RECURSIVE SumInOrder(_, _, _)
SumInOrder(p, k, field) ==
    IF k = 0 THEN 0
    ELSE all_metrics[p[k]][field] + SumInOrder(p, k - 1, field)

Orders == ListsOf(1..Len(all_metrics))

Counts(m) == <<m.true_positives, m.true_negatives, m.false_positives,
               m.false_negatives>>

\* C9: the overall counts are the sums of the per-file counts in whatever
\* order they are added, and the overall ratios are taken from the sums.
Aggregation ==
    (pc = "evaluate_done" /\ all_metrics # <<>>) =>
        /\ \A p \in Orders :
              /\ overall.total_tp
                   = SumInOrder(p, Len(all_metrics), "true_positives")
              /\ overall.total_tn
                   = SumInOrder(p, Len(all_metrics), "true_negatives")
              /\ overall.total_fp
                   = SumInOrder(p, Len(all_metrics), "false_positives")
              /\ overall.total_fn
                   = SumInOrder(p, Len(all_metrics), "false_negatives")
        /\ IsRatio(overall.accuracy, overall.total_tp + overall.total_tn,
                   overall.total_tp + overall.total_tn + overall.total_fp
                     + overall.total_fn)
        /\ IsRatio(overall.precision, overall.total_tp,
                   overall.total_tp + overall.total_fp)
        /\ IsRatio(overall.recall, overall.total_tp,
                   overall.total_tp + overall.total_fn)
        /\ IsRatio(overall.f1_score,
                   2 * overall.precision[1] * overall.recall[1],
                   overall.precision[1] * overall.recall[2]
                     + overall.recall[1] * overall.precision[2])
        /\ (/\ Len(all_metrics) = 2
            /\ Counts(all_metrics[1]) = <<1, 1, 0, 1>>
            /\ Counts(all_metrics[2]) = <<2, 0, 1, 0>>)
              => /\ overall.total_tp = 3 /\ overall.total_tn = 1
                 /\ overall.total_fp = 1 /\ overall.total_fn = 1

\* C9 witness: the two records of the example; the overall precision 3/4 is
\* not the mean 5/6 of the two precisions 1 and 2/3
AggregationWitness ==
    /\ pc = "evaluate_done"
    /\ Len(all_metrics) = 2
    /\ Counts(all_metrics[1]) = <<1, 1, 0, 1>>
    /\ Counts(all_metrics[2]) = <<2, 0, 1, 0>>
    /\ all_metrics[1].precision = <<1, 1>>
    /\ all_metrics[2].precision = <<2, 3>>
    /\ overall.total_tp = 3 /\ overall.total_fn = 1
    /\ overall.precision = <<3, 4>>

\* C10: a failed iteration goes on with the next file or the end of the
\* loop, and from every failure the run reaches its last step with every
\* file visited, in both programs.
FailureIsolation ==
    /\ [](pc \in Running => ENABLED Next)
    /\ [][(pc = "except" =>
             /\ pc' = AfterFile(eml_idx, eml_files, "extract", "banner")
             /\ eml_idx' = AfterFile(eml_idx, eml_files, eml_idx + 1, eml_idx))
          /\ (pc = "evaluate_except" =>
             /\ pc' = AfterFile(gt_idx, gt_files, "load", "overall")
             /\ gt_idx' = AfterFile(gt_idx, gt_files, gt_idx + 1, gt_idx))]_vars
    /\ (pc = "except") ~> (pc = "classify_done" /\ eml_idx = eml_files)
    /\ (pc = "evaluate_except")
          ~> (pc = "evaluate_done" /\ gt_idx = gt_files)

\* C10 witness: the first file failed, a later one was saved, the run ended
FailureIsolationWitness ==
    /\ pc = "classify_done"
    /\ 1 \in errors
    /\ \E i \in written : i > 1

(***************************************************************************)
(* extract_html_body_and_attachments (lines 15-72)                         *)
(* A part is [ctype, cdisp, payload, parts]: the tokens of its             *)
(* Content-Type and Content-Disposition header values (<<>> when the       *)
(* header is absent), the bytes get_payload(decode=True) returns, and its  *)
(* sub-parts.                                                              *)
(***************************************************************************)
TextHtml == <<"text", "html">>
Quotes == {"'", "\""}
Whitespace == {" ", "\n"}
Digits == {"7", "01", "02"}
InvalidBytes == {"0xff"}

\* Message.walk(): the part, then the walk of each sub-part in order
RECURSIVE walk(_)
RECURSIVE walk_all(_)
walk(part) == <<part>> \o walk_all(part.parts)
walk_all(parts) ==
    IF parts = <<>> THEN <<>> ELSE walk(Head(parts)) \o walk_all(Tail(parts))

\* part.get_content_type(): text/plain when there is no header
get_content_type(part) ==
    IF part.ctype = <<>> THEN <<"text", "plain">>
    ELSE <<part.ctype[1], part.ctype[3]>>

\* bytes.decode('utf-8', errors='ignore'): undecodable bytes are dropped
RECURSIVE decode(_)
decode(payload) ==
    IF payload = <<>> THEN <<>>
    ELSE IF Head(payload) \in InvalidBytes THEN decode(Tail(payload))
         ELSE <<Head(payload)>> \o decode(Tail(payload))

\* lines 33-42: the body after a part has been looked at
capture_html(part, body) ==
    IF get_content_type(part) = TextHtml /\ body = <<>>
    THEN IF part.payload # <<>> THEN decode(part.payload) ELSE body
    ELSE body

\* [^;=\n]*= after the key at position i: the position of the "=", 0 if none
EqualsAfter(header, i) ==
    LET stops == {j \in (i + 1)..Len(header) : header[j] \in {";", "=", "\n"}}
    IN  IF stops = {} THEN 0
        ELSE LET j == Min(stops) IN IF header[j] = "=" THEN j ELSE 0

\* (['"]).*?\2 at position j: the position of the nearest closing quote
ClosingQuote(header, j) ==
    LET closes == {k \in (j + 1)..Len(header) : header[k] = header[j]}
    IN  IF j <= Len(header) /\ header[j] \in Quotes /\ closes # {}
        THEN Min(closes) ELSE 0

\* [^\s;]+ at position j: the position of the last token of the run
RECURSIVE BareEnd(_, _)
BareEnd(header, j) ==
    IF j > Len(header) \/ header[j] \in Whitespace \cup {";"} THEN j - 1
    ELSE BareEnd(header, j + 1)

\* group(1) of key[^;=\n]*=((['"]).*?\2|[^\s;]+) matched at position i
ValueAt(header, i) ==
    LET eq == EqualsAfter(header, i)
        close == ClosingQuote(header, eq + 1)
    IN  IF eq = 0 THEN <<>>
        ELSE IF close # 0 THEN SubSeq(header, eq + 1, close)
        ELSE SubSeq(header, eq + 1, BareEnd(header, eq + 1))

\* re.search of the pattern: group(1) of the leftmost match, <<>> if none
param_search(keys, header) ==
    LET starts == {i \in 1..Len(header) :
                      header[i] \in keys /\ ValueAt(header, i) # <<>>}
    IN  IF starts = {} THEN <<>> ELSE ValueAt(header, Min(starts))

\* str.strip('\'"'): every leading and trailing quote character goes
RECURSIVE lstrip(_)
lstrip(v) ==
    IF v # <<>> /\ Head(v) \in Quotes THEN lstrip(Tail(v)) ELSE v
RECURSIVE rstrip(_)
rstrip(v) ==
    IF v # <<>> /\ v[Len(v)] \in Quotes THEN rstrip(SubSeq(v, 1, Len(v) - 1))
    ELSE v
strip(v) == rstrip(lstrip(v))

\* lines 51-66: the filename parameter of the disposition, else the name
\* parameter of the content type; <<>> stands for None and for ''
derive_filename(part) ==
    LET from_disposition ==
            IF part.cdisp # <<>>
            THEN strip(param_search({"filename"}, part.cdisp))
            ELSE <<>>
    IN  IF from_disposition # <<>> THEN from_disposition
        ELSE strip(param_search({"name", "filename"}, part.ctype))

\* \d+ at position i: the position after the digits
RECURSIVE DigitsEnd(_, _)
DigitsEnd(name, i) ==
    IF i <= Len(name) /\ name[i] \in Digits THEN DigitsEnd(name, i + 1) ELSE i

\* line 69: re.match(r'example_\d+_attachment_\d+\.', filename)
matches_pattern(name) ==
    LET d1 == DigitsEnd(name, 2)
        d2 == DigitsEnd(name, d1 + 1)
    IN  /\ Len(name) >= 1 /\ name[1] = "example_"
        /\ d1 > 2 /\ d1 <= Len(name) /\ name[d1] = "_attachment_"
        /\ d2 > d1 + 1 /\ d2 <= Len(name) /\ name[d2] = "."

\* the string of a token sequence
RECURSIVE Join(_)
Join(tokens) ==
    IF tokens = <<>> THEN "" ELSE Head(tokens) \o Join(Tail(tokens))

\* mutant: the HTML part is not skipped
is_attachment_html_too(part) ==
    \/ part.cdisp # <<>>
    \/ get_content_type(part)[1] \in {"application", "image", "video", "audio"}

\* lines 45-50: a part other than text/html with a disposition header or
\* one of the four content kinds
is_attachment(part) ==
    /\ get_content_type(part) # TextHtml
    /\ \/ part.cdisp # <<>>
       \/ get_content_type(part)[1]
              \in {"application", "image", "video", "audio"}

\* lines 44-70: the list after a part has been looked at
collect_filename(part, list) ==
    IF /\ is_attachment(part)
       /\ derive_filename(part) # <<>>
       /\ matches_pattern(derive_filename(part))
    THEN Append(list, Join(derive_filename(part)))
    ELSE list

\* line 72: sorted(set(attachments))
id_list(list) == SortedList(ToSet(list))

(***************************************************************************)
(* SpecExtract: extract_html_body_and_attachments on every message of at   *)
(* most MaxParts parts built from the leaf parts below.                    *)
(***************************************************************************)
Name01 == <<"example_", "7", "_attachment_", "01", ".", "pdf">>
Name02 == <<"example_", "7", "_attachment_", "02", ".", "png">>
Invoice == <<"invoice", ".", "pdf">>

Quoted(value) == <<"\"">> \o value \o <<"\"">>
ContentType(maintype, subtype) == <<maintype, "/", subtype>>
WithName(ctype, value) == ctype \o <<";", " ", "name", "=">> \o value
Disposition(kind, value) == <<kind, ";", " ", "filename", "=">> \o value
Leaf(ctype, cdisp, payload) ==
    [ctype |-> ctype, cdisp |-> cdisp, payload |-> payload, parts |-> <<>>]

Leaves ==
    { \* HTML bodies: with an undecodable byte, empty, and one sent as an
      \* attachment with a conforming filename
      Leaf(ContentType("text", "html"), <<>>, <<"A", "0xff">>),
      Leaf(ContentType("text", "html"), <<>>, <<>>),
      Leaf(ContentType("text", "html"),
           Disposition("attachment", Quoted(Name01)), <<"B">>),
      \* plain text whose type header carries a conforming name
      Leaf(WithName(ContentType("text", "plain"), Name01), <<>>, <<"T">>),
      \* inline image named by its type header only
      Leaf(WithName(ContentType("image", "png"), Quoted(Name02)), <<>>,
           <<"P">>),
      \* attachments named by the disposition header
      Leaf(ContentType("application", "pdf"),
           Disposition("attachment", Quoted(Invoice)), <<"P">>),
      Leaf(ContentType("application", "pdf"),
           Disposition("attachment", Name01), <<"P">>),
      \* no Content-Type header at all
      Leaf(<<>>, Disposition("inline", Quoted(Name02)), <<"P">>) }

Container(parts) ==
    [ctype |-> ContentType("multipart", "mixed"), cdisp |-> <<>>,
     payload |-> <<>>, parts |-> parts]

\* the messages of exactly n parts, and the part lists of n parts in all
RECURSIVE Trees(_)
RECURSIVE Forests(_)
Trees(n) ==
    (IF n = 1 THEN Leaves ELSE {}) \cup {Container(f) : f \in Forests(n - 1)}
Forests(n) ==
    IF n = 0 THEN {<<>>}
    ELSE UNION {{<<t>> \o f : t \in Trees(k), f \in Forests(n - k)}
                : k \in 1..n}

Messages == UNION {Trees(n) : n \in 1..MaxParts}

InitExtract ==
    /\ RepairIdle /\ ScoreIdle /\ ClassifyIdle /\ EvaluateIdle
    /\ pc = "open"
    /\ msg \in Messages
    /\ walk_parts = <<>> /\ html_body = <<>> /\ extracted = NoResult

\* lines 17-28: the message is parsed and the walk starts
ExtractOpen ==
    /\ pc = "open"
    /\ walk_parts' = walk(msg)
    /\ html_body' = <<>>
    /\ attachments' = <<>>
    /\ pc' = "walk"
    /\ UNCHANGED <<msg, extracted, repairVars, scoreVars, evaluateVars,
                   eml_files, eml_idx, outcome, response_text, result,
                   handler, calls, raised, errors, written>>

\* lines 28-70: one iteration of the loop over msg.walk()
ExtractPart ==
    /\ pc = "walk" /\ walk_parts # <<>>
    /\ html_body' = capture_html(Head(walk_parts), html_body)
    /\ attachments' = collect_filename(Head(walk_parts), attachments)
    /\ walk_parts' = Tail(walk_parts)
    /\ UNCHANGED <<pc, msg, extracted, repairVars, scoreVars, evaluateVars,
                   eml_files, eml_idx, outcome, response_text, result,
                   handler, calls, raised, errors, written>>

\* line 72: the walk is over
ExtractReturn ==
    /\ pc = "walk" /\ walk_parts = <<>>
    /\ extracted' = <<html_body, id_list(attachments)>>
    /\ pc' = "extracted"
    /\ UNCHANGED <<msg, walk_parts, html_body, attachments, repairVars,
                   scoreVars, evaluateVars, eml_files, eml_idx, outcome,
                   response_text, result, handler, calls, raised, errors,
                   written>>

NextExtract == ExtractOpen \/ ExtractPart \/ ExtractReturn

SpecExtract == InitExtract /\ [][NextExtract]_vars

(***************************************************************************)
(* Properties of extract_html_body_and_attachments                         *)
(***************************************************************************)
Extracted == pc = "extracted"
MessageParts == ToSet(walk(msg))

\* prefix, message index, infix, attachment index, dot, extension
ConformingNames ==
    {<<"example_", m, "_attachment_", a, ".", e>>
     : m \in Digits, a \in Digits, e \in {"pdf", "png"}}

\* a part that is not HTML and has a disposition header or one of the four
\* content kinds
Candidate(part) ==
    /\ get_content_type(part) # TextHtml
    /\ \/ part.cdisp # <<>>
       \/ \E kind \in {"application", "image", "video", "audio"} :
             get_content_type(part)[1] = kind

RetainedNames ==
    {Join(derive_filename(part))
     : part \in {q \in MessageParts :
                    Candidate(q) /\ derive_filename(q) \in ConformingNames}}

\* C11: the returned id list is sorted, has no duplicate, and holds exactly
\* the conforming derived filenames of the non-HTML attachment candidates of
\* the message; invoice.pdf is never in it and example_7_attachment_02.png
\* is whenever a candidate part is named so.
ExtractionIdList ==
    Extracted =>
        /\ \A i \in 1..(Len(extracted[2]) - 1) :
              Rank(extracted[2][i]) < Rank(extracted[2][i + 1])
        /\ ToSet(extracted[2]) = RetainedNames
        /\ "invoice.pdf" \notin ToSet(extracted[2])
        /\ (\E part \in MessageParts :
               Candidate(part) /\ derive_filename(part) = Name02)
           => "example_7_attachment_02.png" \in ToSet(extracted[2])

\* C11 witness: a message with an invoice.pdf attachment and two conforming
\* ones met out of order has been extracted
ExtractionIdListWitness ==
    /\ Extracted
    /\ \E part \in MessageParts : derive_filename(part) = Invoice
    /\ attachments = <<"example_7_attachment_02.png",
                       "example_7_attachment_01.pdf">>
    /\ extracted[2] = <<"example_7_attachment_01.pdf",
                        "example_7_attachment_02.png">>

HtmlParts ==
    SelectSeq(walk(msg), LAMBDA part : get_content_type(part) = TextHtml)

\* C12: the returned body is the decoded content of the first HTML part of
\* the walk, whatever that content is and whatever HTML parts follow, and
\* the empty string when the message has no HTML part.
FirstHtmlWins ==
    Extracted =>
        extracted[1] = IF HtmlParts = <<>> THEN <<>>
                       ELSE decode(HtmlParts[1].payload)

(***************************************************************************)
(* Count conservation of evaluate_classification                           *)
(***************************************************************************)
ScoredAny == pc \in {"scored", "parsed_scored", "fallback_scored"}
GtUniverse == GtIncluded \cup GtExcluded

\* both dicts are disjoint and cover the same ids
ValidPartitions ==
    /\ PredIncluded \cap PredExcluded = {}
    /\ GtIncluded \cap GtExcluded = {}
    /\ PredIncluded \cup PredExcluded = GtUniverse

\* the cells of the confusion matrix an id falls in
CellsOf(id) ==
    {c \in {"tp", "tn", "fp", "fn"} :
        \/ c = "tp" /\ id \in PredIncluded /\ id \in GtIncluded
        \/ c = "tn" /\ id \in PredExcluded /\ id \in GtExcluded
        \/ c = "fp" /\ id \in PredIncluded /\ id \in GtExcluded
        \/ c = "fn" /\ id \in PredExcluded /\ id \in GtIncluded}
CellCount(c) == Cardinality({id \in GtUniverse : c \in CellsOf(id)})

\* C13: when predicted and ground truth are valid partitions of the same
\* ids, the four counts add up to the number of ids, every id is counted in
\* exactly one cell, and nothing is missing or extra; a repaired answer and
\* the fallback are such partitions.
CountConservation ==
    /\ (ScoredAny /\ ValidPartitions) =>
          /\ metrics.true_positives + metrics.true_negatives
               + metrics.false_positives + metrics.false_negatives
             = Cardinality(GtUniverse)
          /\ \A id \in GtUniverse : Cardinality(CellsOf(id)) = 1
          /\ metrics.true_positives = CellCount("tp")
          /\ metrics.true_negatives = CellCount("tn")
          /\ metrics.false_positives = CellCount("fp")
          /\ metrics.false_negatives = CellCount("fn")
          /\ metrics.missing_attachments = <<>>
          /\ metrics.extra_attachments = <<>>
    /\ pc \in {"parsed_scored", "fallback_scored"} =>
          /\ ValidPartitions
          /\ GtUniverse = ToSet(attachment_filenames)
    /\ pc = "fallback_scored" => predicted = Fallback(attachment_filenames)

\* C13 witness: the fallback over three ids was scored against a ground
\* truth that includes two of them
CountConservationWitness ==
    /\ pc = "fallback_scored"
    /\ GtUniverse = KnownIds
    /\ Cardinality(GtIncluded) = 2
    /\ metrics.false_negatives = 2 /\ metrics.true_negatives = 1

====
